---- MODULE Spec2Model ----
(***************************************************************************)
(* Model of the YouTube sermon-analysis batch script (main.py) and of its  *)
(* generative-text helper (src/backend/utils/bard.py).                     *)
(*                                                                         *)
(* A URL "https://<host><rest>" is the record [host, rest]; rest is the    *)
(* sequence of characters after the host.  Optional[str] values are        *)
(* records [some, val].  A reply of the generative-text collaborator is a  *)
(* sequence of tokens: "{" and "}" are braces, "w" is any other text       *)
(* (commentary, code fences), "s" is an object member whose value is a     *)
(* string, "n" is a member for one of the six expected keys whose value    *)
(* is not a string (number, null, list).                                   *)
(***************************************************************************)
EXTENDS Integers, Sequences, FiniteSets, TLC

(* The state:                                                              *)
(*   urls          main.py:161-163  analyse_videos(urls)                  *)
(*   apiKey        bard.py:67-68  rewrite_text: api_key                   *)
(*   pc            main.py:161-175  analyse_videos / _analyse_one: control position *)
(*   idx           main.py:163-163  analyse_videos: idx                   *)
(*   vid           main.py:87-87  fetch_transcript: vid                   *)
(*   clock         main.py:84-84  backoff.on_exception(max_time=60): elapsed time *)
(*   tries         main.py:84-84  backoff.on_exception(backoff.expo): wait generator position *)
(*   rows          main.py:162-167  analyse_videos: rows                  *)
(*   sleeps        main.py:168-168  analyse_videos: asyncio.sleep calls completed *)
(*   resolved      main.py:87-90  fetch_transcript: vid is truthy (current video) *)
(*   fetched       main.py:119-122  _analyse_one: text is truthy (current video) *)
(*   parsed        main.py:130-131  _analyse_one: data = _to_json(raw) (current video) *)
(*   rewriteCalls  main.py:130-130  _analyse_one: calls of rewrite_text (current video) *)
(*   genCalls      bard.py:108-110  _invoke_model: generate_content calls (current video) *)
(*   fellBack      bard.py:102-104  _sync_call: fallback invocation made (current video) *)
(*   failure       main.py:116-158  _analyse_one: reason of the None result *)
(*   netCalled     main.py:93-93  get_transcript / generate_content called *)
(*   processed     main.py:165-165  analyse_videos: _analyse_one calls returned *)
(*   fileWrites    main.py:172-174  analyse_videos: to_csv calls          *)
(*   file          main.py:172-174  analyse_videos: rows written by to_csv *)
VARIABLES urls, apiKey, pc, idx, vid, clock, tries, rows, sleeps,
          resolved, fetched, parsed, rewriteCalls, genCalls, fellBack,
          failure, netCalled, processed, fileWrites, file

vars == <<urls, apiKey, pc, idx, vid, clock, tries, rows, sleeps,
          resolved, fetched, parsed, rewriteCalls, genCalls, fellBack,
          failure, netCalled, processed, fileWrites, file>>

(* ------------------------------ bounds --------------------------------- *)
MaxUrls == 2
MaxRest == 4
MaxReplyLen == 3
MaxAttemptTime == 2

(* max_time of the backoff decorator of fetch_transcript, in seconds *)
MaxTime == 60

Min(a, b) == IF a <= b THEN a ELSE b

SeqsUpTo(S, n) == UNION {[1..k -> S] : k \in 0..n}

(* ------------------------- Optional[str] values ------------------------ *)
NoneVal == [some |-> FALSE, val |-> <<>>]
Some(s) == [some |-> TRUE, val |-> s]
Truthy(o) == o.some /\ o.val # <<>>

(* ------------------------------ urlparse ------------------------------- *)
FirstIndex(s, cs) ==
    IF \E i \in 1..Len(s) : s[i] \in cs
    THEN CHOOSE i \in 1..Len(s) : s[i] \in cs /\ \A j \in 1..(i-1) : s[j] \notin cs
    ELSE 0

(* text before / after the first occurrence of a character of cs *)
Before(s, cs) == IF FirstIndex(s, cs) = 0 THEN s ELSE SubSeq(s, 1, FirstIndex(s, cs) - 1)
After(s, cs) == IF FirstIndex(s, cs) = 0 THEN <<>> ELSE SubSeq(s, FirstIndex(s, cs) + 1, Len(s))

(* urlparse(url).path and .query: the fragment is cut at the first "#",    *)
(* then the query at the first "?"                                         *)
UrlPathKeepsQuery(u) == Before(u.rest, {"#"})

UrlPath(u) == Before(Before(u.rest, {"#"}), {"?"})
UrlQuery(u) == After(Before(u.rest, {"#"}), {"?"})

(* str.lstrip("/") *)
LStripSlash(s) ==
    IF \A i \in 1..Len(s) : s[i] = "/" THEN <<>>
    ELSE SubSeq(s, CHOOSE i \in 1..Len(s) : s[i] # "/" /\ \A j \in 1..(i-1) : s[j] = "/", Len(s))

(* parse_qs(query).get("v", [None])[0]: the fields are split at "&", a     *)
(* field without "=" or with a blank value is dropped, the first remaining *)
(* field named v gives the value                                           *)
FieldStarts(q) == {1} \cup {i + 1 : i \in {j \in 1..Len(q) : q[j] = "&"}}
FieldAt(q, p) == Before(SubSeq(q, p, Len(q)), {"&"})
IsVField(f) == /\ FirstIndex(f, {"="}) # 0
               /\ Before(f, {"="}) = <<"v">>
               /\ After(f, {"="}) # <<>>
ParseQsV(q) ==
    LET ps == {p \in FieldStarts(q) : p <= Len(q) /\ IsVField(FieldAt(q, p))}
    IN IF ps = {} THEN NoneVal
       ELSE Some(After(FieldAt(q, CHOOSE p \in ps : \A r \in ps : p <= r), {"="}))

ShortLinkId(p) == LStripSlash(p)

_extract_video_id(u) ==
    IF u.host \in {"www.youtube.com", "youtube.com"} THEN ParseQsV(UrlQuery(u))
    ELSE IF u.host = "youtu.be" THEN Some(ShortLinkId(UrlPath(u)))
    ELSE NoneVal

(* ------------------------------ inputs --------------------------------- *)
ShortUrl == [host |-> "youtu.be", rest |-> <<"/", "a", "?", "s", "i", "=", "b">>]
WatchUrl == [host |-> "www.youtube.com", rest |-> <<"/", "w", "?", "v", "=", "a">>]
NoParamUrl == [host |-> "youtube.com", rest |-> <<"/", "w">>]
OtherUrl == [host |-> "example.com", rest |-> <<"/", "a">>]
UrlPool == {ShortUrl, WatchUrl, NoParamUrl, OtherUrl}

(* vid = _extract_video_id(url) for the URLs of the pool *)
VideoIdOf == [u \in UrlPool |-> _extract_video_id(u)]

(* the text fetch_transcript joins from the caption lines: none or some *)
TranscriptPool == {<<>>, <<"w">>}

ReplyTokens == {"{", "}", "w", "s", "n"}
Replies == SeqsUpTo(ReplyTokens, MaxReplyLen)

(* ------------------------------ _to_json ------------------------------- *)
LastIndex(s, cs) ==
    IF \E i \in 1..Len(s) : s[i] \in cs
    THEN CHOOSE i \in 1..Len(s) : s[i] \in cs /\ \A j \in (i+1)..Len(s) : s[j] \notin cs
    ELSE 0

(* re.search(r'{.*}', text, flags=re.S): from the first "{" that has a "}" *)
(* after it to the last "}"                                                *)
BraceMatch(r) ==
    LET i == FirstIndex(r, {"{"})
        j == LastIndex(r, {"}"})
    IN IF i # 0 /\ j > i THEN Some(SubSeq(r, i, j)) ELSE NoneVal

(* json.loads of the matched text: an object is a pair of braces around    *)
(* members only                                                            *)
JsonLoadsOk(m) ==
    /\ Len(m) >= 2
    /\ m[1] = "{" /\ m[Len(m)] = "}"
    /\ \A k \in 2..(Len(m) - 1) : m[k] \in {"s", "n"}

ToJsonOk(r) == BraceMatch(r).some /\ JsonLoadsOk(BraceMatch(r).val)

Members(r) == SubSeq(BraceMatch(r).val, 2, Len(BraceMatch(r).val) - 1)

(* data.get(key, "").strip() raises AttributeError on a value that is not  *)
(* a string                                                                *)
RowAssemblyRaises(r) == \E k \in 1..Len(Members(r)) : Members(r)[k] = "n"

(* ---------------------------- backoff policy --------------------------- *)
(* backoff.expo: 1, 2, 4, ...; the wait is cut to max_time - elapsed, so   *)
(* the counter need not grow once the value has passed max_time            *)
ExpoValue(n) == 2 ^ n

NextTries(n) == IF ExpoValue(n) >= MaxTime THEN n ELSE n + 1

GiveUpAtOnce(elapsed) == TRUE

GiveUp(elapsed) == elapsed >= MaxTime

(* ------------------------------ the run -------------------------------- *)
Init ==
    /\ urls \in SeqsUpTo(UrlPool, MaxUrls)
    /\ apiKey \in BOOLEAN
    /\ pc = "loop"
    /\ idx = 0
    /\ vid = NoneVal
    /\ clock = 0
    /\ tries = 0
    /\ rows = <<>>
    /\ sleeps = 0
    /\ resolved = FALSE
    /\ fetched = FALSE
    /\ parsed = FALSE
    /\ rewriteCalls = 0
    /\ genCalls = 0
    /\ fellBack = FALSE
    /\ failure = "none"
    /\ netCalled = FALSE
    /\ processed = 0
    /\ fileWrites = 0
    /\ file = <<>>

(* for idx, link in enumerate(urls, start=1): the next video begins *)
StartVideo ==
    /\ pc = "loop"
    /\ idx < Len(urls)
    /\ idx' = idx + 1
    /\ pc' = "fetch"
    /\ vid' = NoneVal
    /\ clock' = 0
    /\ tries' = 0
    /\ resolved' = FALSE
    /\ fetched' = FALSE
    /\ parsed' = FALSE
    /\ rewriteCalls' = 0
    /\ genCalls' = 0
    /\ fellBack' = FALSE
    /\ failure' = "none"
    /\ UNCHANGED <<urls, apiKey, rows, sleeps, netCalled, processed, fileWrites, file>>

(* _analyse_one returns None: the row is falsy, nothing is appended, and   *)
(* the loop body goes on to its sleep                                      *)
SkipNoSleep(reason) ==
    /\ failure' = reason
    /\ pc' = "loop"
    /\ processed' = processed + 1
    /\ UNCHANGED rows

Skip(reason) ==
    /\ failure' = reason
    /\ pc' = "sleep"
    /\ processed' = processed + 1
    /\ UNCHANGED rows

(* the handler of the outer try of _analyse_one: log and return None *)
OuterExceptReraise(reason) ==
    /\ failure' = reason
    /\ pc' = "aborted"
    /\ UNCHANGED <<processed, rows>>

OuterExcept(reason) == Skip(reason)

(* the handler of the inner try of _analyse_one: log and return None *)
InnerExcept(reason) == Skip(reason)

PrependRow(rs, r) == <<r>> \o rs

AppendRow(rs, r) == Append(rs, r)

(* _analyse_one returns the row dict and analyse_videos appends it; pos is *)
(* the input position the row came from                                    *)
Emit ==
    /\ rows' = AppendRow(rows, [link |-> urls[idx], pos |-> idx])
    /\ failure' = "none"
    /\ pc' = "sleep"
    /\ processed' = processed + 1

NotTextNever(t) == FALSE

(* "if not text" *)
NotText(t) == t = <<>>

(* fetch_transcript: the URL has no identifier, None is returned *)
FetchInvalidUrl ==
    /\ pc = "fetch"
    /\ ~Truthy(VideoIdOf[urls[idx]])
    /\ vid' = VideoIdOf[urls[idx]]
    /\ Skip("invalid_url")
    /\ UNCHANGED <<urls, apiKey, idx, clock, tries, sleeps, resolved, fetched, parsed,
                   rewriteCalls, genCalls, fellBack, netCalled, fileWrites, file>>

(* fetch_transcript: NoTranscriptFound or TranscriptsDisabled for every    *)
(* language of the list, None is returned                                  *)
FetchNoCaption ==
    /\ pc = "fetch"
    /\ Truthy(VideoIdOf[urls[idx]])
    /\ vid' = VideoIdOf[urls[idx]]
    /\ resolved' = TRUE
    /\ netCalled' = TRUE
    /\ clock' = 0
    /\ tries' = 0
    /\ Skip("no_caption")
    /\ UNCHANGED <<urls, apiKey, idx, sleeps, fetched, parsed,
                   rewriteCalls, genCalls, fellBack, fileWrites, file>>

(* fetch_transcript returns the joined caption text *)
FetchOk ==
    /\ pc = "fetch"
    /\ Truthy(VideoIdOf[urls[idx]])
    /\ vid' = VideoIdOf[urls[idx]]
    /\ resolved' = TRUE
    /\ netCalled' = TRUE
    /\ clock' = 0
    /\ tries' = 0
    /\ \E t \in TranscriptPool :
          /\ fetched' = (t # <<>>)
          /\ IF NotText(t)
             THEN Skip("no_text")
             ELSE /\ pc' = "critique"
                  /\ UNCHANGED <<failure, processed, rows>>
    /\ UNCHANGED <<urls, apiKey, idx, sleeps, parsed,
                   rewriteCalls, genCalls, fellBack, fileWrites, file>>

(* clock is the time since the retry wrapper of fetch_transcript started   *)
(* and tries the number of waits it has drawn; both are locals of the      *)
(* wrapper and end with it.  Time is counted in whole seconds: an attempt  *)
(* takes between 1 and MaxAttemptTime, and the jittered wait is any value  *)
(* from 0 to the expo value, cut to what is left of the window             *)
(* get_transcript raises another exception before the retry window has     *)
(* elapsed: the decorator sleeps and calls fetch_transcript again          *)
FetchRetry ==
    /\ pc = "fetch"
    /\ Truthy(VideoIdOf[urls[idx]])
    /\ ~GiveUp(clock)
    /\ vid' = VideoIdOf[urls[idx]]
    /\ resolved' = TRUE
    /\ netCalled' = TRUE
    /\ \E d \in 1..MaxAttemptTime :
         \E w \in 0..Min(ExpoValue(tries), MaxTime - clock) :
            clock' = clock + d + w
    /\ tries' = NextTries(tries)
    /\ UNCHANGED <<urls, apiKey, pc, idx, rows, sleeps, fetched, parsed, rewriteCalls,
                   genCalls, fellBack, failure, processed, fileWrites, file>>

(* get_transcript raises after the retry window has elapsed: the decorator *)
(* re-raises and the outer handler of _analyse_one takes it                *)
FetchGiveUp ==
    /\ pc = "fetch"
    /\ Truthy(VideoIdOf[urls[idx]])
    /\ GiveUp(clock)
    /\ vid' = VideoIdOf[urls[idx]]
    /\ resolved' = TRUE
    /\ netCalled' = TRUE
    /\ clock' = 0
    /\ tries' = 0
    /\ OuterExcept("fetch_exc")
    /\ UNCHANGED <<urls, apiKey, idx, sleeps, fetched, parsed,
                   rewriteCalls, genCalls, fellBack, fileWrites, file>>

(* _to_json(raw), then the row dict, on a reply text of the collaborator   *)
HandleReply(r) ==
    IF ~ToJsonOk(r)
    THEN /\ InnerExcept("bad_json")
         /\ UNCHANGED parsed
    ELSE /\ parsed' = TRUE
         /\ IF RowAssemblyRaises(r) THEN OuterExcept("row_error") ELSE Emit

(* rewrite_text without GOOGLE_BARD_KEY and GOOGLE_API_KEY: it raises      *)
(* EnvironmentError before genai is configured; the inner handler of       *)
(* _analyse_one takes it                                                   *)
RewriteNoKey ==
    /\ pc = "critique"
    /\ ~apiKey
    /\ rewriteCalls' = rewriteCalls + 1
    /\ InnerExcept("no_key")
    /\ UNCHANGED <<urls, apiKey, idx, vid, clock, tries, sleeps, resolved, fetched, parsed,
                   genCalls, fellBack, netCalled, fileWrites, file>>

(* rewrite_text -> _sync_call -> _invoke_model returns resp.text *)
RewriteReply ==
    /\ pc = "critique"
    /\ apiKey
    /\ rewriteCalls' = rewriteCalls + 1
    /\ genCalls' = genCalls + 1
    /\ netCalled' = TRUE
    /\ \E r \in Replies \ {<<>>} : HandleReply(r)
    /\ UNCHANGED <<urls, apiKey, idx, vid, clock, tries, sleeps, resolved, fetched,
                   fellBack, fileWrites, file>>

(* the first _invoke_model raises (generate_content fails, or the response *)
(* has no text); _sync_call looks for another model only when the message  *)
(* has "not found" or "is not supported", and only uses one it finds       *)
RewriteError ==
    /\ pc = "critique"
    /\ apiKey
    /\ rewriteCalls' = rewriteCalls + 1
    /\ genCalls' = genCalls + 1
    /\ netCalled' = TRUE
    /\ \E notFound \in BOOLEAN, alt \in BOOLEAN :
          IF notFound /\ alt
          THEN /\ pc' = "fallback"
               /\ UNCHANGED <<failure, processed, rows>>
          ELSE InnerExcept("critique_exc")
    /\ UNCHANGED <<urls, apiKey, idx, vid, clock, tries, sleeps, resolved, fetched, parsed,
                   fellBack, fileWrites, file>>

(* a second fallback round instead of the single one *)
FallbackReissues ==
    /\ pc = "fallback"
    /\ genCalls' = genCalls + 1
    /\ fellBack' = TRUE
    /\ UNCHANGED <<urls, apiKey, pc, idx, vid, clock, tries, rows, sleeps, resolved,
                   fetched, parsed, rewriteCalls, failure, netCalled, processed,
                   fileWrites, file>>

(* _sync_call: _invoke_model(alt, ...) with the model _find_first_supported *)
(* gave; its reply is returned and its exception propagates                *)
Fallback ==
    /\ pc = "fallback"
    /\ genCalls' = genCalls + 1
    /\ fellBack' = TRUE
    /\ \/ \E r \in Replies \ {<<>>} : HandleReply(r)
       \/ /\ InnerExcept("critique_exc")
          /\ UNCHANGED parsed
    /\ UNCHANGED <<urls, apiKey, idx, vid, clock, tries, sleeps, resolved, fetched,
                   rewriteCalls, netCalled, fileWrites, file>>

(* await asyncio.sleep(10) at the end of the loop body *)
Sleep ==
    /\ pc = "sleep"
    /\ sleeps' = sleeps + 1
    /\ pc' = "loop"
    /\ UNCHANGED <<urls, apiKey, idx, vid, clock, tries, rows, resolved, fetched, parsed,
                   rewriteCalls, genCalls, fellBack, failure, netCalled, processed,
                   fileWrites, file>>

NothingToSaveWrites ==
    /\ pc = "loop"
    /\ idx = Len(urls)
    /\ rows = <<>>
    /\ fileWrites' = fileWrites + 1
    /\ file' = rows
    /\ pc' = "done"
    /\ UNCHANGED <<urls, apiKey, idx, vid, clock, tries, rows, sleeps, resolved, fetched,
                   parsed, rewriteCalls, genCalls, fellBack, failure, netCalled, processed>>

(* after the loop: "if not rows": nothing is written *)
NothingToSave ==
    /\ pc = "loop"
    /\ idx = Len(urls)
    /\ rows = <<>>
    /\ pc' = "done"
    /\ UNCHANGED <<urls, apiKey, idx, vid, clock, tries, rows, sleeps, resolved, fetched,
                   parsed, rewriteCalls, genCalls, fellBack, failure, netCalled, processed,
                   fileWrites, file>>

(* after the loop: pd.DataFrame(rows).to_csv(...) *)
WriteCsv ==
    /\ pc = "loop"
    /\ idx = Len(urls)
    /\ rows # <<>>
    /\ fileWrites' = fileWrites + 1
    /\ file' = rows
    /\ pc' = "done"
    /\ UNCHANGED <<urls, apiKey, idx, vid, clock, tries, rows, sleeps, resolved, fetched,
                   parsed, rewriteCalls, genCalls, fellBack, failure, netCalled, processed>>

Next ==
    \/ StartVideo
    \/ FetchInvalidUrl
    \/ FetchNoCaption
    \/ FetchOk
    \/ FetchRetry
    \/ FetchGiveUp
    \/ RewriteNoKey
    \/ RewriteReply
    \/ RewriteError
    \/ Fallback
    \/ Sleep
    \/ NothingToSave
    \/ WriteCsv

Spec == Init /\ [][Next]_vars

(* the script is one thread of control that keeps running, and every call  *)
(* to a collaborator returns or raises                                     *)
FairSpec == Init /\ [][Next]_vars /\ WF_vars(Next)

(* ---------------- _extract_video_id on its own ------------------------- *)
UrlChars == {"/", "?", "#", "&", "=", "v", "a"}
UrlHosts == {"youtu.be", "www.youtube.com", "youtube.com", "example.com"}

(* after the host a URL is empty or goes on with "/", "?" or "#" *)
UrlSpace ==
    {u \in [host : UrlHosts, rest : SeqsUpTo(UrlChars, MaxRest)] :
        u.rest = <<>> \/ u.rest[1] \in {"/", "?", "#"}}

InitUrl ==
    /\ urls \in {<<u>> : u \in UrlSpace}
    /\ apiKey = FALSE
    /\ pc = "extract"
    /\ idx = 1
    /\ vid = NoneVal
    /\ clock = 0
    /\ tries = 0
    /\ rows = <<>>
    /\ sleeps = 0
    /\ resolved = FALSE
    /\ fetched = FALSE
    /\ parsed = FALSE
    /\ rewriteCalls = 0
    /\ genCalls = 0
    /\ fellBack = FALSE
    /\ failure = "none"
    /\ netCalled = FALSE
    /\ processed = 0
    /\ fileWrites = 0
    /\ file = <<>>

ExtractVideoId ==
    /\ pc = "extract"
    /\ vid' = _extract_video_id(urls[idx])
    /\ pc' = "extracted"
    /\ UNCHANGED <<urls, apiKey, idx, clock, tries, rows, sleeps, resolved, fetched, parsed,
                   rewriteCalls, genCalls, fellBack, failure, netCalled, processed,
                   fileWrites, file>>

NextUrl == ExtractVideoId

SpecUrl == InitUrl /\ [][NextUrl]_vars

(* ------------------------------ claims --------------------------------- *)
InVideo == pc \in {"fetch", "critique", "fallback"}

RowEmitted == \E k \in 1..Len(rows) : rows[k].pos = idx

(* C1 (as stated): when a video is finished, its row is in the collection  *)
(* if and only if its transcript fetch and its critique call (rewrite_text *)
(* then _to_json) both succeeded                                           *)
C1_RowIffBothStages ==
    pc = "sleep" => (RowEmitted <=> (fetched /\ parsed))

(* C2: no per-video failure ends the batch: the run is never aborted,      *)
(* every failure leaves the video finished and skipped, every URL of the   *)
(* list has been processed when the loop is over, and the loop is over in  *)
(* the end                                                                 *)
C2_NoFailureEndsBatch ==
    /\ [](/\ pc # "aborted"
          /\ processed = (IF InVideo THEN idx - 1 ELSE idx)
          /\ (failure # "none" => pc \in {"sleep", "loop", "done"})
          /\ (pc = "done" => processed = Len(urls)))
    /\ <>(pc = "done" /\ processed = Len(urls))

C2_Witness ==
    pc = "done" /\ processed = 2 /\ Len(rows) = 1 /\ rows[1].pos = 2

(* C3 (as stated): the configuration error of a missing credential is      *)
(* raised before any network call and before any video is processed, and   *)
(* it aborts the run                                                       *)
C3_MissingKeyStopsFirst ==
    failure = "no_key" => (~netCalled /\ processed = 0 /\ pc = "aborted")

C5_RowsInInputOrder ==
    \A i \in 1..Len(rows) :
        /\ rows[i].pos \in 1..(IF InVideo THEN idx - 1 ELSE idx)
        /\ rows[i].link = urls[rows[i].pos]
        /\ \A j \in (i+1)..Len(rows) : rows[i].pos < rows[j].pos

C5_Witness ==
    Len(rows) = 2 /\ rows[1].pos = 1 /\ rows[2].pos = 2

(* C6: one delay has elapsed for every finished video before the next one  *)
(* starts or the loop ends, whatever the video's outcome                   *)
C6_DelayAfterEveryVideo ==
    /\ sleeps = (IF pc \in {"loop", "done"} THEN idx ELSE idx - 1)
    /\ (pc \in {"loop", "done"} => sleeps = processed)

C6_Witness ==
    pc = "fetch" /\ idx = 2 /\ rows = <<>> /\ failure = "none" /\ sleeps = 1

(* C7: no file is written before the whole list is processed; then none is *)
(* written when there is no row, and otherwise one file with all the rows  *)
C7_FileOnceAtEnd ==
    /\ (pc # "done" => fileWrites = 0 /\ file = <<>>)
    /\ (pc = "done" =>
          /\ idx = Len(urls) /\ processed = Len(urls)
          /\ (rows = <<>> => fileWrites = 0 /\ file = <<>>)
          /\ (rows # <<>> => fileWrites = 1 /\ file = rows))

C7_Witness ==
    pc = "done" /\ Len(urls) = 2 /\ fileWrites = 1 /\ Len(file) = 1

(* C8: an exception of a fetch attempt inside the retry window is followed *)
(* by another attempt at a later time; the fetch fails only once the       *)
(* window has elapsed, and then the video is skipped with no row and no    *)
(* critique call; retrying always ends, and the run goes on to the next    *)
(* turn of the loop                                                        *)
C8_RetryEndsInSkip ==
    /\ [][(pc = "fetch" /\ failure' = "fetch_exc") =>
             /\ clock >= MaxTime
             /\ pc' = "sleep"
             /\ rows' = rows
             /\ genCalls' = 0 /\ rewriteCalls' = 0]_vars
    /\ [][(pc = "fetch" /\ pc' = "fetch") => (clock < MaxTime /\ clock' > clock)]_vars
    /\ [](failure = "fetch_exc" => ~RowEmitted /\ genCalls = 0 /\ rewriteCalls = 0)
    /\ ((pc = "fetch") ~> (pc \in {"sleep", "critique"}))
    /\ ((pc = "sleep" /\ failure = "fetch_exc") ~> (pc = "loop"))

C8_Witness ==
    pc = "sleep" /\ failure = "fetch_exc" /\ idx < Len(urls)

(* C9: the stages of a video come in order: a critique call needs a        *)
(* fetched transcript, which needs a resolved identifier; a row needs a    *)
(* parsed critique; a failed video is finished and has no row              *)
C9_StagesInOrder ==
    /\ (fetched => resolved)
    /\ (parsed => fetched)
    /\ (RowEmitted => parsed /\ failure = "none")
    /\ (pc \in {"critique", "fallback"} => fetched /\ failure = "none")
    /\ ((genCalls > 0 \/ rewriteCalls > 0) => fetched)
    /\ (failure # "none" => ~RowEmitted /\ pc \in {"sleep", "loop", "done"})

C9_Witness ==
    pc = "sleep" /\ failure = "bad_json" /\ genCalls = 1

(* the first segment of a path *)
FirstSegment(p) == Before(LStripSlash(p), {"/"})

PathOnly(u) == \A i \in 1..Len(u.rest) : u.rest[i] \notin {"?", "#"}

WithQuery(u, q) == [host |-> u.host, rest |-> u.rest \o <<"?">> \o q]

(* C10 (as stated): for a short-link URL the result is the first segment   *)
(* of the path                                                             *)
C10_FirstSegment ==
    (pc = "extracted" /\ urls[1].host = "youtu.be") =>
        vid = Some(FirstSegment(UrlPath(urls[1])))

(* C10 (amended): for a short-link URL the result is the whole path        *)
(* without its leading slashes, whatever query string follows the path; it *)
(* is the first segment when the path has no further slash                 *)
C10_WholePathAnyQuery ==
    (pc = "extracted" /\ urls[1].host = "youtu.be" /\ PathOnly(urls[1])) =>
        LET p == urls[1].rest
            n == Len(p) - Len(vid.val)
        IN /\ vid.some
           /\ n >= 0
           /\ vid.val = SubSeq(p, n + 1, Len(p))
           /\ \A i \in 1..n : p[i] = "/"
           /\ (vid.val # <<>> => vid.val[1] # "/")
           /\ \A q \in SeqsUpTo(UrlChars, 2) :
                 _extract_video_id(WithQuery(urls[1], q)) = vid
           /\ ((\A i \in 1..Len(vid.val) : vid.val[i] # "/") => vid.val = FirstSegment(p))

C10_Witness ==
    /\ pc = "extracted"
    /\ urls[1] = [host |-> "youtu.be", rest |-> <<"/", "a", "/", "a">>]
    /\ vid = Some(<<"a", "/", "a">>)

====
